---------------------------- MODULE Spec2Model ----------------------------
(***************************************************************************)
(* Model of the chess-vision move detection core:                          *)
(*   - extractSquares, detectOccupiedSquares, detectMove and               *)
(*     BoardStateTracker of the move detection module;                     *)
(*   - detectEdges and detectChessboard of boardDetection.ts.              *)
(* A nullable value (Set<string> | null, DetectedMove | null) is the empty *)
(* sequence for null and the one-element sequence <<v>> for the value v.   *)
(* A confidence is kept in tenths (8 for 0.8, 7 for 0.7).                  *)
(***************************************************************************)
EXTENDS Integers, Sequences, FiniteSets, TLC

VARIABLES
    previousOccupied,   \* BoardStateTracker.previousOccupied
    stableFrames,       \* BoardStateTracker.stableFrames
    last,               \* the last call on the tracker: its inputs, the state before it, its return
    sameRun,            \* frames since the baseline frame that all showed one occupancy other than the baseline's
    inferred,           \* whether detectMove was invoked during that run
    dmPrevious,         \* detectMove: argument previousOccupied
    dmCurrent,          \* detectMove: argument currentOccupied
    dmChess,            \* detectMove: what chess.moves({verbose: true}) returns
    dmResult,           \* detectMove: <<"pending">> before the call, <<"returned", r>> after it
    esCorners,          \* extractSquares: argument corners
    esResult,           \* extractSquares: <<"pending">> before the call, <<"returned", squares>> after it
    doLabels,           \* detectOccupiedSquares: sq.file + sq.rank of the argument squares, in order
    doBrightness,       \* detectOccupiedSquares: getRegionBrightness of the argument squares, in order
    doResult,           \* detectOccupiedSquares: <<"pending">> before the call, <<"returned", set>> after it
    dcFrame,            \* detectChessboard: argument imageData
    dcEdges,            \* detectChessboard: <<edges>> once detectEdges has returned the mask, <<>> otherwise
    dcResult,           \* detectChessboard: <<"pending">> before the call, <<"returned", r>> after it
    lsFrame,            \* detectOccupiedSquares on pixels: argument imageData of the first call
    lsCorners,          \* the corners from which extractSquares made the argument squares of both calls
    lsShift,            \* what the second call's frame has more in every channel of every pixel
    lsResult,           \* <<"pending">> before the calls, <<"returned", first set, second set>> after them
    cam,                \* CameraView: props, state, refs, effect bookkeeping and the browser's timers
    camLog,             \* what the last step of the camera view did
    games,              \* the rows of the games table
    nextId,             \* the id the table's autoincrement gives the next row
    calls,              \* the game router's calls in flight
    rpcLast             \* the last call that returned, with what it returned or touched

vars == <<previousOccupied, stableFrames, last, sameRun, inferred,
          dmPrevious, dmCurrent, dmChess, dmResult,
          esCorners, esResult, doLabels, doBrightness, doResult,
          dcFrame, dcEdges, dcResult, lsFrame, lsCorners, lsShift, lsResult,
          cam, camLog, games, nextId, calls, rpcLast>>

trackerVars == <<previousOccupied, stableFrames, last, sameRun, inferred>>
detectVars == <<dmPrevious, dmCurrent, dmChess, dmResult>>
squaresVars == <<esCorners, esResult>>
occupiedVars == <<doLabels, doBrightness, doResult>>
boardVars == <<dcFrame, dcEdges, dcResult>>
shiftVars == <<lsFrame, lsCorners, lsShift, lsResult>>
cameraVars == <<cam, camLog>>
dbVars == <<games, nextId, calls, rpcLast>>

-----------------------------------------------------------------------------
(* Bounds of the inputs *)

\* squares on which a frame may show a piece (tracker runs)
NumFrameSquares == 2
\* squares that the two occupancy sets handed to detectMove range over
NumDiffSquares == 4
\* moves of MoveCatalog that the oracle may list
NumMoves == 3
\* longest legal-move list of the oracle
MaxLegal == 2
\* longest legal-move list of the oracle in the tracker runs
MaxTrackerLegal == 1
\* the tracker is driven until its counter reaches this value
MaxStable == 3
\* region brightness of an empty square and of a square with a piece
BoardBrightness == 124
PieceBrightness == 60
\* a corner coordinate handed to extractSquares is 0..MaxCoord times CoordStep
MaxCoord == 1
CoordStep == 100
\* most squares handed to detectOccupiedSquares on its own
MaxSquares == 4
\* a frame's width and height are among the first NumSizes entries of SizeOrder
NumSizes == 3
\* a frame's one lit pixel has coordinates among the first NumLitCoords entries of LitCoords
NumLitCoords == 4
\* the frames handed to the edge detector are up to MaxEdgeSize pixels wide and high
MaxEdgeSize == 4
\* the frames sampled for occupancy are 1..MaxSampledSize pixels wide and high
MaxSampledSize == 2
\* the browser hands out the timer ids 1..MaxTimers, the camera view captures
\* at most MaxCaptures frames, and the parent passes onFrame handlers 1..NumHandlers
MaxTimers == 4
MaxCaptures == 3
NumHandlers == 2
\* the games table gets at most MaxGames rows, the router serves NumUsers
\* users and at most NumCallers calls at a time
MaxGames == 3
NumUsers == 2
NumCallers == 2

null == <<>>

Min(S) == CHOOSE x \in S : \A y \in S : x <= y

Abs(x) == IF x < 0 THEN -x ELSE x

RECURSIVE SumTo(_, _)
SumTo(s, k) == IF k = 0 THEN 0 ELSE s[k] + SumTo(s, k - 1)

\* brightnesses.reduce((a, b) => a + b, 0)
SumSeq(s) == SumTo(s, Len(s))

-----------------------------------------------------------------------------
(* extractSquares: the labels, in the order the squares are pushed *)

files_sevenFiles == <<"a", "b", "c", "d", "e", "f", "g">>

files == <<"a", "b", "c", "d", "e", "f", "g", "h">>

ranks_bottomFirst == <<"1", "2", "3", "4", "5", "6", "7", "8">>

ranks == <<"8", "7", "6", "5", "4", "3", "2", "1">>

\* sq.file + sq.rank of the square pushed for (rankIdx, fileIdx), both 0-based
SquareLabel(rankIdx, fileIdx) == files[fileIdx + 1] \o ranks[rankIdx + 1]

\* the labels of extractSquares' result: element rankIdx * 8 + fileIdx of the
\* array is element rankIdx * 8 + fileIdx + 1 here
squareLabels ==
    [i \in 1..(Len(ranks) * Len(files)) |->
        SquareLabel((i - 1) \div Len(files), (i - 1) % Len(files))]

-----------------------------------------------------------------------------
(* extractSquares: the positions.  The corners have integer coordinates, so  *)
(* every intermediate value is a multiple of 1/64 and exact in a double.     *)

\* Math.round of n / d for d > 0: halves go up
MathRound(n, d) == (2 * n + d) \div (2 * d)

\* 8 times a + (b - a) * ratio for ratio = idx / 8
Interpolate8(a, b, idx) == 8 * a + (b - a) * idx

\* 64 times the x and the y that extractSquares computes for (rankIdx, fileIdx):
\* xRatio = fileIdx / 8 and yRatio = rankIdx / 8
squareX64(corners, rankIdx, fileIdx) ==
    LET topX == Interpolate8(corners.topLeft.x, corners.topRight.x, fileIdx)
        bottomX == Interpolate8(corners.bottomLeft.x, corners.bottomRight.x, fileIdx)
    IN  Interpolate8(topX, bottomX, rankIdx)

squareY64(corners, rankIdx, fileIdx) ==
    LET topY == Interpolate8(corners.topLeft.y, corners.topRight.y, fileIdx)
        bottomY == Interpolate8(corners.bottomLeft.y, corners.bottomRight.y, fileIdx)
    IN  Interpolate8(topY, bottomY, rankIdx)

\* the SquarePosition pushed for (rankIdx, fileIdx)
squareAt(corners, rankIdx, fileIdx) ==
    [file |-> files[fileIdx + 1],
     rank |-> ranks[rankIdx + 1],
     x |-> MathRound(squareX64(corners, rankIdx, fileIdx), 64),
     y |-> MathRound(squareY64(corners, rankIdx, fileIdx), 64)]

\* the array extractSquares returns: ranks outside, files inside
extractSquares(corners) ==
    [i \in 1..(Len(ranks) * Len(files)) |->
        squareAt(corners, (i - 1) \div Len(files), (i - 1) % Len(files))]

-----------------------------------------------------------------------------
(* detectEdges and detectChessboard (boardDetection.ts).  A real number is   *)
(* the record [n, d] for n / d in lowest terms with d > 0, and [0, 0] for    *)
(* NaN; the arithmetic is exact.                                             *)

RECURSIVE GCD(_, _)
GCD(a, b) == IF b = 0 THEN a ELSE GCD(b, a % b)

\* n / d in lowest terms
Rat(n, d) ==
    IF d = 0
    THEN [n |-> 0, d |-> 0]
    ELSE [n |-> n \div GCD(Abs(n), d), d |-> d \div GCD(Abs(n), d)]

IsNaN(a) == a.d = 0

\* a > b, a < b, a = b of two numbers: false when either is NaN
RatGreater(a, b) == ~IsNaN(a) /\ ~IsNaN(b) /\ a.n * b.d > b.n * a.d
RatLess(a, b) == ~IsNaN(a) /\ ~IsNaN(b) /\ a.n * b.d < b.n * a.d
RatEqual(a, b) == ~IsNaN(a) /\ ~IsNaN(b) /\ a.n * b.d = b.n * a.d

gridSize == 20
EDGE_THRESHOLD == 100

\* a value n / d >= 0 stored into a Uint8ClampedArray: rounded to the nearest
\* integer, a half to the even one, and clamped to 255
ToUint8Clamped(n, d) ==
    LET q == n \div d
        r == n % d
        rounded == IF 2 * r < d THEN q
                   ELSE IF 2 * r > d THEN q + 1
                   ELSE IF q % 2 = 0 THEN q ELSE q + 1
    IN  IF rounded > 255 THEN 255 ELSE rounded

\* the pixel (x, y) of the frame: data[i], data[i + 1], data[i + 2]
pixelAt(frame, x, y) == IF <<x, y>> \in frame.lit THEN frame.colour ELSE frame.base

\* grayscale[y * width + x]: 0.299 r + 0.587 g + 0.114 b stored into a
\* Uint8ClampedArray
getGray(frame, x, y) ==
    ToUint8Clamped(299 * pixelAt(frame, x, y).r + 587 * pixelAt(frame, x, y).g
                       + 114 * pixelAt(frame, x, y).b, 1000)

sobelX_unbalanced(frame, x, y) ==
    - getGray(frame, x - 1, y - 1) + getGray(frame, x + 1, y - 1)
    + 2 * getGray(frame, x - 1, y) + 2 * getGray(frame, x + 1, y)
    - getGray(frame, x - 1, y + 1) + getGray(frame, x + 1, y + 1)

sobelX(frame, x, y) ==
    - getGray(frame, x - 1, y - 1) + getGray(frame, x + 1, y - 1)
    - 2 * getGray(frame, x - 1, y) + 2 * getGray(frame, x + 1, y)
    - getGray(frame, x - 1, y + 1) + getGray(frame, x + 1, y + 1)

sobelY(frame, x, y) ==
    - getGray(frame, x - 1, y - 1) - 2 * getGray(frame, x, y - 1)
    - getGray(frame, x + 1, y - 1) + getGray(frame, x - 1, y + 1)
    + 2 * getGray(frame, x, y + 1) + getGray(frame, x + 1, y + 1)

isEdge_atThreshold(frame, x, y) ==
    sobelX(frame, x, y) * sobelX(frame, x, y) + sobelY(frame, x, y) * sobelY(frame, x, y)
        >= EDGE_THRESHOLD * EDGE_THRESHOLD

\* magnitude > 100, squared
isEdge(frame, x, y) ==
    sobelX(frame, x, y) * sobelX(frame, x, y) + sobelY(frame, x, y) * sobelY(frame, x, y)
        > EDGE_THRESHOLD * EDGE_THRESHOLD

\* the pixels with a lit pixel in their 3x3 neighbourhood
nearLit(frame) ==
    UNION { ((q[1] - 1)..(q[1] + 1)) \X ((q[2] - 1)..(q[2] + 1)) : q \in frame.lit }

\* the mask detectEdges returns: its length, and the set flagged of the
\* <<x, y>> with edges[y * width + x] = 255.  The loops visit every pixel with
\* 1 <= x < width - 1 and 1 <= y < height - 1; one without a lit pixel in its
\* neighbourhood sees nine pixels of the base colour, has gx = gy = 0 and
\* stays 0, so only the others are enumerated.
detectEdges(frame) ==
    [length |-> frame.width * frame.height,
     flagged |-> { p \in nearLit(frame) :
                    /\ 1 <= p[1] /\ p[1] < frame.width - 1
                    /\ 1 <= p[2] /\ p[2] < frame.height - 1
                    /\ isEdge(frame, p[1], p[2]) }]

\* the pixelX (pixelY) values of one grid cell: Math.floor(g * size / 20 + i)
\* for the integers i with 0 <= i < size / 20
cellPixels(size, g) ==
    { (g * size) \div gridSize + i : i \in 0..((size - 1) \div gridSize) }

\* edgeCount of the cell (gx, gy): the pixels of the cell that are edges
edgeCount(frame, edges, gx, gy) ==
    Cardinality({ e \in edges.flagged : /\ e[1] \in cellPixels(frame.width, gx)
                                        /\ e[2] \in cellPixels(frame.height, gy) })

\* density = edgeCount / (gridCellWidth * gridCellHeight)
cellDensity(frame, edges, gx, gy) ==
    IF frame.width * frame.height = 0
    THEN Rat(0, 0)
    ELSE Rat(gridSize * gridSize * edgeCount(frame, edges, gx, gy),
             frame.width * frame.height)

\* the densities in the order of the two loops: cell k is (k % 20, k \div 20)
gridDensities(frame, edges) ==
    [k \in 0..(gridSize * gridSize - 1) |->
        cellDensity(frame, edges, k % gridSize, k \div gridSize)]

\* one pass of the inner loop's body: if (density > maxEdgeDensity) { ... }
visitCell(density, gy, gx, acc) ==
    IF RatGreater(density[gy * gridSize + gx], acc.maxEdgeDensity)
    THEN [maxEdgeDensity |-> density[gy * gridSize + gx],
          bestGridCell |-> [x |-> gx, y |-> gy]]
    ELSE acc

\* the inner loop over gx from gx on, in the row gy (each pass's outcome is
\* bound as a set's only member, so that it is computed once)
RECURSIVE scanRow(_, _, _, _)
scanRow(density, gy, gx, acc) ==
    IF gx = gridSize
    THEN acc
    ELSE CHOOSE out \in { scanRow(density, gy, gx + 1, next) :
                             next \in { visitCell(density, gy, gx, acc) } } : TRUE

\* the outer loop over gy from gy on
RECURSIVE scanGrid(_, _, _)
scanGrid(density, gy, acc) ==
    IF gy = gridSize
    THEN acc
    ELSE CHOOSE out \in { scanGrid(density, gy + 1, next) :
                             next \in { scanRow(density, gy, 0, acc) } } : TRUE

searchGrid(frame, edges) ==
    CHOOSE acc \in { scanGrid(density, 0, [maxEdgeDensity |-> Rat(0, 1),
                                           bestGridCell |-> [x |-> 0, y |-> 0]]) :
                       density \in { gridDensities(frame, edges) } } : TRUE

confidenceOf_uncapped(maxEdgeDensity) ==
    Rat(20 * maxEdgeDensity.n, 3 * maxEdgeDensity.d)

\* Math.min(1, maxEdgeDensity / 0.15)
confidenceOf(maxEdgeDensity) ==
    IF 20 * maxEdgeDensity.n >= 3 * maxEdgeDensity.d
    THEN Rat(1, 1)
    ELSE Rat(20 * maxEdgeDensity.n, 3 * maxEdgeDensity.d)

notDetected_onlyAtZero(confidence) == confidence.n <= 0

\* confidence < 0.3
notDetected(confidence) == RatLess(confidence, Rat(3, 10))

MinOf(a, b) == IF a < b THEN a ELSE b
MaxOf(a, b) == IF a > b THEN a ELSE b

\* 40 times the centre coordinate (g + 0.5) * size / 20 and 40 times boardSize / 2
\* for boardSize = Math.min(width, height) * 0.8
center40(size, g) == (2 * g + 1) * size
halfBoard40(frame) == 16 * MinOf(frame.width, frame.height)

boardCorners_unclipped(frame, cell) ==
    LET left == Rat(center40(frame.width, cell.x) - halfBoard40(frame), 40)
        right == Rat(center40(frame.width, cell.x) + halfBoard40(frame), 40)
        top == Rat(center40(frame.height, cell.y) - halfBoard40(frame), 40)
        bottom == Rat(center40(frame.height, cell.y) + halfBoard40(frame), 40)
    IN  [topLeft |-> [x |-> left, y |-> top], topRight |-> [x |-> right, y |-> top],
         bottomLeft |-> [x |-> left, y |-> bottom],
         bottomRight |-> [x |-> right, y |-> bottom]]

\* the corners around the best cell, with Math.max(0, .) and Math.min(width, .),
\* Math.min(height, .)
boardCorners(frame, cell) ==
    LET left == Rat(MaxOf(0, center40(frame.width, cell.x) - halfBoard40(frame)), 40)
        right == Rat(MinOf(40 * frame.width,
                           center40(frame.width, cell.x) + halfBoard40(frame)), 40)
        top == Rat(MaxOf(0, center40(frame.height, cell.y) - halfBoard40(frame)), 40)
        bottom == Rat(MinOf(40 * frame.height,
                            center40(frame.height, cell.y) + halfBoard40(frame)), 40)
    IN  [topLeft |-> [x |-> left, y |-> top], topRight |-> [x |-> right, y |-> top],
         bottomLeft |-> [x |-> left, y |-> bottom],
         bottomRight |-> [x |-> right, y |-> bottom]]

\* the try block from the grid search on, for the mask edges
locateBoard(frame, edges) ==
    LET found == searchGrid(frame, edges)
        confidence == confidenceOf(found.maxEdgeDensity)
    IN  IF notDetected(confidence)
        THEN [detected |-> FALSE, corners |-> null, confidence |-> confidence]
        ELSE [detected |-> TRUE, corners |-> <<boardCorners(frame, found.bestGridCell)>>,
              confidence |-> confidence]

\* detectEdges inside the try block: <<edges>>, or <<>> when it throws
\* (data.length of a missing data array)
tryDetectEdges(frame) == IF frame.hasData THEN <<detectEdges(frame)>> ELSE <<>>

\* detectChessboard once detectEdges has returned or thrown: the catch block
\* returns { detected: false, confidence: 0 }
detectChessboardAfter(frame, tried) ==
    IF tried = <<>>
    THEN [detected |-> FALSE, corners |-> null, confidence |-> Rat(0, 1)]
    ELSE locateBoard(frame, tried[1])

detectChessboard(frame) == detectChessboardAfter(frame, tryDetectEdges(frame))

-----------------------------------------------------------------------------
(* detectOccupiedSquares *)

OCCUPIED_DELTA == 15

\* brightnesses[i] is getRegionBrightness of square i; the comparison
\* |b - sum/n| > 15 is taken times n, which is exact for integer brightness
\* (the sum is bound once, as a set's only member, instead of once per square)
detectOccupiedSquares_darkerOnly(labels, brightnesses) ==
    LET n == Len(brightnesses)
    IN  UNION { { labels[i] : i \in { j \in 1..n :
                      total - brightnesses[j] * n > OCCUPIED_DELTA * n } } :
                total \in { SumSeq(brightnesses) } }

detectOccupiedSquares(labels, brightnesses) ==
    LET n == Len(brightnesses)
    IN  UNION { { labels[i] : i \in { j \in 1..n :
                      Abs(brightnesses[j] * n - total) > OCCUPIED_DELTA * n } } :
                total \in { SumSeq(brightnesses) } }

\* the window radius getRegionBrightness takes by default
REGION_RADIUS == 20

\* the pixels of the window that pass the bounds check x >= 0, x < width,
\* y >= 0, y < height; centerX + dx is an integer, Math.round leaves it alone
windowPixels(frame, centerX, centerY) ==
    (MaxOf(0, centerX - REGION_RADIUS)..MinOf(frame.width - 1, centerX + REGION_RADIUS))
        \X (MaxOf(0, centerY - REGION_RADIUS)..MinOf(frame.height - 1, centerY + REGION_RADIUS))

\* data[idx] + data[idx + 1] + data[idx + 2] summed over the pixels: three
\* times totalBrightness
RECURSIVE channelTotal(_, _)
channelTotal(frame, pixels) ==
    IF pixels = {}
    THEN 0
    ELSE LET p == CHOOSE q \in pixels : TRUE
             c == pixelAt(frame, p[1], p[2])
         IN  c.r + c.g + c.b + channelTotal(frame, pixels \ {p})

\* pixelCount > 0 ? totalBrightness / pixelCount : 0
getRegionBrightness(frame, centerX, centerY) ==
    LET window == windowPixels(frame, centerX, centerY)
    IN  IF window # {}
        THEN Rat(channelTotal(frame, window), 3 * Cardinality(window))
        ELSE Rat(0, 1)

LCM(a, b) == (a * b) \div GCD(a, b)

\* the least common multiple of a set of denominators
RECURSIVE CommonDenominator(_)
CommonDenominator(dens) ==
    IF dens = {}
    THEN 1
    ELSE LET d == CHOOSE e \in dens : TRUE
         IN  LCM(d, CommonDenominator(dens \ {d}))

\* s[lo] + ... + s[hi], halving the range
RECURSIVE SumRange(_, _, _)
SumRange(s, lo, hi) ==
    IF lo > hi THEN 0
    ELSE IF lo = hi THEN s[lo]
    ELSE SumRange(s, lo, (lo + hi) \div 2) + SumRange(s, (lo + hi) \div 2 + 1, hi)

\* detectOccupiedSquares from the pixels: the comparison |b - sum/n| > 15 is
\* taken times n and times the common denominator of the brightnesses
occupiedAmong(squares, brightnesses, unit) ==
    LET n == Len(squares)
    IN  UNION { { squares[i].file \o squares[i].rank : i \in { j \in 1..n :
                      Abs(brightnesses[j].n * (unit \div brightnesses[j].d) * n - total)
                          > OCCUPIED_DELTA * n * unit } } :
                total \in { SumRange([j \in 1..n |-> brightnesses[j].n * (unit \div brightnesses[j].d)],
                                     1, n) } }

detectOccupiedSquaresIn(imageData, squares) ==
    UNION { occupiedAmong(squares, brightnesses,
                          CommonDenominator({ brightnesses[i].d : i \in 1..Len(squares) })) :
            brightnesses \in { [i \in 1..Len(squares) |->
                                   getRegionBrightness(imageData, squares[i].x, squares[i].y)] } }

-----------------------------------------------------------------------------
(* detectMove *)

NORMAL_CONFIDENCE == 8
CASTLING_CONFIDENCE == 7

\* m.flags.includes(ch): flags is the set of the flag string's characters
FlagsInclude(flags, ch) == ch \in flags

\* legalMoves.find(...): the index of the first element that passes, 0 if
\* none, from the set of the indices of the elements that pass
FindFirst(hits) == IF hits = {} THEN 0 ELSE Min(hits)

disappearedOf(previous, current) == { sq \in previous : sq \notin current }

appearedOf(previous, current) == { sq \in current : sq \notin previous }

IsNormalShape(nDisappeared, nAppeared) == nDisappeared = 1 /\ nAppeared = 1

IsCastlingShape_sameCount(nDisappeared, nAppeared) == nDisappeared = nAppeared

IsCastlingShape(nDisappeared, nAppeared) == nDisappeared = 2 /\ nAppeared = 2

MatchesMove_fromOnly(m, from, to) == m.from = from

MatchesMove_toOnly(m, from, to) == m.to = to

MatchesMove(m, from, to) == m.from = from /\ m.to = to

IsCastlingMove_kingSideOnly(m) == FlagsInclude(m.flags, "k")

IsCastlingMove(m) == FlagsInclude(m.flags, "k") \/ FlagsInclude(m.flags, "q")

\* the first return: a normal move, or null when the shape or the oracle says no
normalMove(disappeared, appeared, legalMoves) ==
    IF IsNormalShape(Cardinality(disappeared), Cardinality(appeared))
    THEN LET from == CHOOSE sq \in disappeared : TRUE
             to == CHOOSE sq \in appeared : TRUE
             k == FindFirst({ i \in 1..Len(legalMoves) :
                                MatchesMove(legalMoves[i], from, to) })
         IN  IF k # 0
             THEN <<[from |-> from, to |-> to, confidence |-> NORMAL_CONFIDENCE]>>
             ELSE null
    ELSE null

\* the second return: the first castling move of the oracle
castlingMove(disappeared, appeared, legalMoves) ==
    IF IsCastlingShape(Cardinality(disappeared), Cardinality(appeared))
    THEN LET k == FindFirst({ i \in 1..Len(legalMoves) : IsCastlingMove(legalMoves[i]) })
         IN  IF k # 0
             THEN <<[from |-> legalMoves[k].from, to |-> legalMoves[k].to,
                     confidence |-> CASTLING_CONFIDENCE]>>
             ELSE null
    ELSE null

detectMove(previous, current, legalMoves) ==
    LET disappeared == disappearedOf(previous, current)
        appeared == appearedOf(previous, current)
        normal == normalMove(disappeared, appeared, legalMoves)
    IN  IF normal # null
        THEN normal
        ELSE castlingMove(disappeared, appeared, legalMoves)

-----------------------------------------------------------------------------
(* BoardStateTracker *)

STABILITY_THRESHOLD == 3

\* the fields of a tracker as constructed
newTracker == [previousOccupied |-> null, stableFrames |-> 0]

areSetsEqual_sizeOnly(a, b) == Cardinality(a) = Cardinality(b)

areSetsEqual(a, b) ==
    IF Cardinality(a) # Cardinality(b) THEN FALSE ELSE \A x \in a : x \in b

\* the state and the return of a call: what processFrame leaves and gives back;
\* consulted says whether the call invoked detectMove
Outcome(prev, stable, ret, consulted) ==
    [previousOccupied |-> prev, stableFrames |-> stable,
     ret |-> ret, consulted |-> consulted]

firstFrame_notStored(currentOccupied, stable) ==
    Outcome(null, stable, null, FALSE)

\* "First frame - just store the state"
firstFrame(currentOccupied, stable) ==
    Outcome(<<currentOccupied>>, stable, null, FALSE)

updateStable_keptOnChange(stable, hasChanges) ==
    IF ~hasChanges THEN stable + 1 ELSE stable

updateStable(stable, hasChanges) ==
    IF ~hasChanges THEN stable + 1 ELSE 0

shouldDetect_noThreshold(stable, hasChanges) == hasChanges

\* the condition under which the tracker asks detectMove
shouldDetect(stable, hasChanges) ==
    stable >= STABILITY_THRESHOLD /\ hasChanges

\* as if the tracker asked on stability alone and detectMove took any two
\* equal counts of changed squares for castling
inferMove_onStabilityAlone(prev, currentOccupied, stable, hasChanges, legalMoves) ==
    IF stable >= STABILITY_THRESHOLD
    THEN LET disappeared == disappearedOf(prev, currentOccupied)
             appeared == appearedOf(prev, currentOccupied)
             k == FindFirst({ i \in 1..Len(legalMoves) : IsCastlingMove(legalMoves[i]) })
         IN  [asked |-> TRUE,
              move |-> IF IsCastlingShape_sameCount(Cardinality(disappeared),
                                                    Cardinality(appeared)) /\ k # 0
                       THEN <<[from |-> legalMoves[k].from, to |-> legalMoves[k].to,
                               confidence |-> CASTLING_CONFIDENCE]>>
                       ELSE null]
    ELSE [asked |-> FALSE, move |-> null]

\* the gate and the call of detectMove: whether it was called, and its result
inferMove(prev, currentOccupied, stable, hasChanges, legalMoves) ==
    IF shouldDetect(stable, hasChanges)
    THEN [asked |-> TRUE, move |-> detectMove(prev, currentOccupied, legalMoves)]
    ELSE [asked |-> FALSE, move |-> null]

\* a move was found: the frame becomes the baseline
moveFound(prev, currentOccupied, move) ==
    Outcome(<<currentOccupied>>, 0, move, TRUE)

noMove_baselineFollowsFrame(prev, currentOccupied, stable, asked) ==
    Outcome(<<currentOccupied>>, stable, null, asked)

\* the final "return null"
noMove(prev, currentOccupied, stable, asked) ==
    Outcome(<<prev>>, stable, null, asked)

\* processFrame from "First frame" on, for a tracker in state (prev, stable)
\* and the occupancy classified from the frame
trackOccupancy(prev, stable, currentOccupied, legalMoves) ==
    IF prev = null
    THEN firstFrame(currentOccupied, stable)
    ELSE LET hasChanges == ~areSetsEqual(prev[1], currentOccupied)
             stable1 == updateStable(stable, hasChanges)
             inf == inferMove(prev[1], currentOccupied, stable1, hasChanges, legalMoves)
         IN  IF inf.asked /\ inf.move # null
             THEN moveFound(prev[1], currentOccupied, inf.move)
             ELSE noMove(prev[1], currentOccupied, stable1, inf.asked)

reset_counterKept(prev, stable) ==
    [previousOccupied |-> null, stableFrames |-> stable]

reset(prev, stable) ==
    [previousOccupied |-> null, stableFrames |-> 0]

-----------------------------------------------------------------------------
(* The inputs *)

\* squares a piece may stand on in a frame, and squares of an occupancy set
HotOrder == <<"e2", "e4", "e1", "g1", "h1", "f1">>

FrameSquares == { HotOrder[i] : i \in 1..NumFrameSquares }

DiffSquares == { HotOrder[i] : i \in 1..NumDiffSquares }

\* the frame showing pieces exactly on the squares P, as region brightnesses
FrameWith(P) ==
    [i \in 1..Len(squareLabels) |->
        IF squareLabels[i] \in P THEN PieceBrightness ELSE BoardBrightness]

Frames == { FrameWith(P) : P \in SUBSET FrameSquares }

\* verbose moves of chess.js: from, to and the characters of flags
MoveCatalog ==
    << [from |-> "e2", to |-> "e4", flags |-> {"b"}],
       [from |-> "e1", to |-> "g1", flags |-> {"k"}],
       [from |-> "e1", to |-> "c1", flags |-> {"q"}],
       [from |-> "e4", to |-> "e2", flags |-> {"n"}],
       [from |-> "e1", to |-> "e2", flags |-> {"n"}],
       [from |-> "e2", to |-> "e1", flags |-> {"n", "p"}] >>

\* the lists chess.moves({verbose: true}) may return
LegalLists ==
    { [i \in 1..Len(ix) |-> MoveCatalog[ix[i]]] :
        ix \in { s \in UNION { [1..n -> 1..NumMoves] : n \in 0..MaxLegal } :
                    \A i, j \in 1..Len(s) : i # j => s[i] # s[j] } }

\* the list the oracle returns when all that can be played is the promotion of
\* the pawn on e2: one move for each of the four pieces, alike in from, to and flags
PromotionList == [i \in 1..4 |-> MoveCatalog[6]]

\* the lists the oracle returns in the tracker runs
TrackerLegalLists == { l \in LegalLists : Len(l) <= MaxTrackerLegal }

-----------------------------------------------------------------------------
(* The tracker driven by its caller *)

\* last before any call; beforeReset is <<the tracker's fields before reset()>>
\* when the call before the last one was reset(), and <<>> otherwise
NoCall ==
    [op |-> "new", frame |-> <<>>, occupied |-> {}, chess |-> <<>>, prePrev |-> null,
     preStable |-> 0, beforeReset |-> <<>>, ret |-> null, consulted |-> FALSE]

RunCap == STABILITY_THRESHOLD + 1

\* the run of frames after the baseline frame: -1 once it is broken
nextRun(prev, occ) ==
    IF prev = null THEN 0
    ELSE IF sameRun < 0 \/ occ = prev[1] THEN -1
    ELSE IF sameRun = 0 THEN 1
    ELSE IF occ = last.occupied THEN (IF sameRun < RunCap THEN sameRun + 1 ELSE RunCap)
    ELSE -1

TrackerInit ==
    /\ previousOccupied = newTracker.previousOccupied
    /\ stableFrames = newTracker.stableFrames
    /\ last = NoCall
    /\ sameRun = 0
    /\ inferred = FALSE

\* processFrame(imageData, corners, chess): frame is what getRegionBrightness
\* gives for imageData at the 64 squares extractSquares places from corners
ProcessFrame ==
    \E frame \in Frames :
        \E currentOccupied \in { detectOccupiedSquares(squareLabels, frame) } :
            \E legalMoves \in TrackerLegalLists :
                LET out == trackOccupancy(previousOccupied, stableFrames,
                                          currentOccupied, legalMoves)
                IN  /\ out.stableFrames <= MaxStable
                    /\ previousOccupied' = out.previousOccupied
                    /\ stableFrames' = out.stableFrames
                    /\ last' = [op |-> "processFrame", frame |-> frame,
                                occupied |-> currentOccupied, chess |-> legalMoves,
                                prePrev |-> previousOccupied, preStable |-> stableFrames,
                                beforeReset |->
                                    IF last.op = "reset"
                                    THEN <<[previousOccupied |-> last.prePrev,
                                            stableFrames |-> last.preStable]>>
                                    ELSE <<>>,
                                ret |-> out.ret,
                                consulted |-> out.consulted]
                    /\ sameRun' = IF out.ret # null THEN 0
                                  ELSE nextRun(previousOccupied, currentOccupied)
                    /\ inferred' = IF previousOccupied = null \/ out.ret # null
                                   THEN FALSE
                                   ELSE inferred \/ out.consulted
                    /\ UNCHANGED <<detectVars, squaresVars, occupiedVars, boardVars, shiftVars, cameraVars, dbVars>>

Reset ==
    LET out == reset(previousOccupied, stableFrames)
    IN  /\ previousOccupied' = out.previousOccupied
        /\ stableFrames' = out.stableFrames
        /\ last' = [op |-> "reset", frame |-> <<>>, occupied |-> {}, chess |-> <<>>,
                    prePrev |-> previousOccupied, preStable |-> stableFrames,
                    beforeReset |-> <<>>, ret |-> null, consulted |-> FALSE]
        /\ sameRun' = 0
        /\ inferred' = FALSE
        /\ UNCHANGED <<detectVars, squaresVars, occupiedVars, boardVars, shiftVars, cameraVars, dbVars>>

DetectIdle ==
    /\ dmPrevious = {}
    /\ dmCurrent = {}
    /\ dmChess = <<>>
    /\ dmResult = <<"pending">>

\* a corner set before any call of extractSquares
NoCorners ==
    [topLeft |-> [x |-> 0, y |-> 0], topRight |-> [x |-> 0, y |-> 0],
     bottomLeft |-> [x |-> 0, y |-> 0], bottomRight |-> [x |-> 0, y |-> 0]]

SquaresIdle ==
    /\ esCorners = NoCorners
    /\ esResult = <<"pending">>

OccupiedIdle ==
    /\ doLabels = <<>>
    /\ doBrightness = <<>>
    /\ doResult = <<"pending">>

\* a colour: the red, green and blue of a pixel
Colour(r, g, b) == [r |-> r, g |-> g, b |-> b]

Black == Colour(0, 0, 0)

\* a frame: the pixels of lit have the colour colour, all others the colour base;
\* hasData is FALSE for an object without the data array
NoFrame ==
    [width |-> 0, height |-> 0, hasData |-> TRUE, base |-> Black, lit |-> {},
     colour |-> Black]

BoardIdle ==
    /\ dcFrame = NoFrame
    /\ dcEdges = <<>>
    /\ dcResult = <<"pending">>

ShiftIdle ==
    /\ lsFrame = NoFrame
    /\ lsCorners = NoCorners
    /\ lsShift = 0
    /\ lsResult = <<"pending">>

\* no camera view is mounted
NoCamera ==
    [version |-> "none", isActive |-> FALSE, onFrame |-> 0, isStarted |-> FALSE,
     stream |-> FALSE, ref |-> 0, timers |-> {}, lastTimer |-> 0, effectDeps |-> null,
     hasCleanup |-> FALSE, awaiting |-> null, captured |-> 0]

NoStep == [op |-> "none", overlapped |-> FALSE]

CameraIdle ==
    /\ cam = NoCamera
    /\ camLog = NoStep

Callers == 1..NumCallers

IdleCall == [pc |-> "idle", user |-> 0, inserted |-> 0]

NoRpc == [op |-> "none", user |-> 0, gameId |-> 0, inserted |-> 0, rows |-> {}]

DbIdle ==
    /\ games = {}
    /\ nextId = 1
    /\ calls = [c \in Callers |-> IdleCall]
    /\ rpcLast = NoRpc

Init == TrackerInit /\ DetectIdle /\ SquaresIdle /\ OccupiedIdle /\ BoardIdle /\ ShiftIdle /\ CameraIdle /\ DbIdle

Next == ProcessFrame \/ Reset

Spec == Init /\ [][Next]_vars

-----------------------------------------------------------------------------
(* Properties of the tracker, checked under Spec *)

\* whether the oracle lists a move from square from to square to
Lists(legalMoves, from, to) ==
    \E i \in 1..Len(legalMoves) : legalMoves[i].from = from /\ legalMoves[i].to = to

\* the last call was processFrame on a tracker that held a baseline
OnInitialized == last.op = "processFrame" /\ last.prePrev # null

\* the last frame moved one piece against the baseline and the oracle of that
\* call lists the move
LegalOneSquareChange ==
    /\ OnInitialized
    /\ \E from \in last.prePrev[1], to \in last.occupied :
          /\ last.prePrev[1] \ last.occupied = {from}
          /\ last.occupied \ last.prePrev[1] = {to}
          /\ Lists(last.chess, from, to)

\* C1: once every frame after the baseline frame has shown one and the same
\* occupancy C other than the baseline B, the first time and then unchanged for
\* STABILITY_THRESHOLD more frames, and the move from B to C is legal, a call of
\* that run has invoked detectMove(B, C, oracle).
C1_DetectMoveInvokedOnceSettled ==
    (sameRun >= RunCap /\ LegalOneSquareChange) => inferred

\* C2: a processFrame call that returns a move leaves the counter at
\* STABILITY_THRESHOLD or more; and the first two frames after a baseline frame
\* return no move.
C2_NoMoveBelowThreshold ==
    /\ (last.op = "processFrame" /\ last.ret # null)
          => stableFrames >= STABILITY_THRESHOLD
    /\ (last.op = "processFrame" /\ sameRun \in {1, 2}) => last.ret = null

\* C2 witness: the second of two frames of one occupancy after the baseline
\* frame, a legal one-square move away from the baseline, returned no move.
C2_Witness ==
    /\ sameRun = 2
    /\ LegalOneSquareChange
    /\ last.ret = null
    /\ stableFrames < STABILITY_THRESHOLD

\* C3: processFrame on a tracker without a baseline stores the occupancy
\* classified from the frame, leaves the counter at 0, returns null and does not
\* invoke detectMove.
C3_FirstFrameStoresBaseline ==
    (last.op = "processFrame" /\ last.prePrev = null) =>
        /\ previousOccupied = <<detectOccupiedSquares(squareLabels, last.frame)>>
        /\ last.preStable = 0
        /\ stableFrames = 0
        /\ last.ret = null
        /\ ~last.consulted

\* C3 witness: the first frame after a reset, showing a piece, with an oracle
\* that lists a move.
C3_Witness ==
    /\ last.op = "processFrame"
    /\ last.prePrev = null
    /\ last.beforeReset # <<>>
    /\ last.occupied # {}
    /\ last.chess # <<>>

\* C5: a processFrame call on a tracker with a baseline that returns null leaves
\* the baseline as it was.
C5_NoMoveKeepsBaseline ==
    (OnInitialized /\ last.ret = null) => previousOccupied = last.prePrev

\* C5 witness: such a call whose frame was a legal one-square move away from
\* the baseline.
C5_Witness ==
    /\ LegalOneSquareChange
    /\ last.ret = null
    /\ detectOccupiedSquares(squareLabels, last.frame) # last.prePrev[1]

\* C6: processFrame right after reset() returns and leaves what processFrame on
\* a tracker as constructed returns and leaves for the same frame and oracle:
\* null, the frame's occupancy as baseline, counter 0.
C6_ResetThenFrameLikeNew ==
    (last.op = "processFrame" /\ last.beforeReset # <<>>) =>
        LET occ == detectOccupiedSquares(squareLabels, last.frame)
            fresh == trackOccupancy(newTracker.previousOccupied,
                                    newTracker.stableFrames, occ, last.chess)
        IN  /\ previousOccupied = fresh.previousOccupied
            /\ stableFrames = fresh.stableFrames
            /\ last.ret = fresh.ret
            /\ previousOccupied = <<occ>>
            /\ stableFrames = 0
            /\ last.ret = null

\* C6 witness: a frame processed right after the reset of a tracker that held
\* a baseline and a counter above 0.
C6_Witness ==
    /\ last.op = "processFrame"
    /\ last.beforeReset # <<>>
    /\ last.beforeReset[1].previousOccupied # null
    /\ last.beforeReset[1].stableFrames > 0
    /\ last.occupied # {}

\* C7: a processFrame call whose frame classifies to the occupancy of the stored
\* baseline returns null.
C7_SameOccupancyNoMove ==
    (OnInitialized /\ detectOccupiedSquares(squareLabels, last.frame) = last.prePrev[1])
        => last.ret = null

\* C7 witness: the frame of the baseline fed again until the counter is at the
\* threshold, with an oracle that lists a castling move.
C7_Witness ==
    /\ OnInitialized
    /\ last.occupied = last.prePrev[1]
    /\ last.occupied # {}
    /\ stableFrames >= STABILITY_THRESHOLD
    /\ \E i \in 1..Len(last.chess) : IsCastlingMove(last.chess[i])
    /\ last.ret = null

\* C4 (not decided): a processFrame call that returns a move leaves the frame's
\* occupancy as baseline and the counter at 0.
C4_MoveAdoptsFrame ==
    (last.op = "processFrame" /\ last.ret # null) =>
        /\ previousOccupied = <<detectOccupiedSquares(squareLabels, last.frame)>>
        /\ stableFrames = 0

\* a processFrame call returned a move
MoveReturned == last.op = "processFrame" /\ last.ret # null

\* C24: a processFrame call on an initialized tracker leaves the counter at its
\* old value plus 1 when the frame's occupancy and the stored one are the same
\* set, and at 0 when they are not; the counter is never negative.
C24_CounterCountsEqualFrames ==
    /\ stableFrames \in Nat
    /\ OnInitialized =>
          /\ last.occupied = last.prePrev[1] => stableFrames = last.preStable + 1
          /\ last.occupied # last.prePrev[1] => stableFrames = 0

\* C24 witness: a frame with the baseline's occupancy took the counter from 1
\* to 2, the baseline being a set with a member.
C24_Witness ==
    /\ OnInitialized
    /\ last.occupied = last.prePrev[1]
    /\ last.occupied # {}
    /\ last.preStable = 1
    /\ stableFrames = 2

\* C28: after a processFrame call on an initialized tracker the counter is 0 if
\* the frame's occupancy differed from the baseline; it is positive, and at the
\* threshold, only if the frame's occupancy is the stored baseline.
C28_CounterPositiveOnlyUnchanged ==
    OnInitialized =>
        /\ last.occupied # last.prePrev[1] => stableFrames = 0
        /\ stableFrames > 0 => previousOccupied = <<last.occupied>>
        /\ stableFrames >= STABILITY_THRESHOLD => last.prePrev = <<last.occupied>>

\* C28 witness: a frame that differs from the baseline, after the counter had
\* reached the threshold, set the counter to 0 and returned no move.
C28_Witness ==
    /\ OnInitialized
    /\ last.preStable >= STABILITY_THRESHOLD
    /\ last.occupied # last.prePrev[1]
    /\ stableFrames = 0
    /\ last.ret = null

-----------------------------------------------------------------------------
(* detectMove applied to every pair of occupancy sets and every oracle *)

DetectInit ==
    /\ dmPrevious \in SUBSET DiffSquares
    /\ dmCurrent \in SUBSET DiffSquares
    /\ dmChess \in LegalLists \cup {PromotionList}
    /\ dmResult = <<"pending">>

DetectMove ==
    /\ dmResult = <<"pending">>
    /\ dmResult' = <<"returned", detectMove(dmPrevious, dmCurrent, dmChess)>>
    /\ UNCHANGED <<dmPrevious, dmCurrent, dmChess>>
    /\ UNCHANGED <<trackerVars, squaresVars, occupiedVars, boardVars, shiftVars, cameraVars, dbVars>>

InitDetect == TrackerInit /\ DetectInit /\ SquaresIdle /\ OccupiedIdle /\ BoardIdle /\ ShiftIdle /\ CameraIdle /\ DbIdle

NextDetect == DetectMove

SpecDetect == InitDetect /\ [][NextDetect]_vars

-----------------------------------------------------------------------------
(* Properties of detectMove, checked under SpecDetect *)

Returned == dmResult[1] = "returned"

\* previous - current and current - previous, as set differences
Disappeared == dmPrevious \ dmCurrent

Appeared == dmCurrent \ dmPrevious

\* the castling moves of the oracle's list, by position
CastlingAt == { i \in 1..Len(dmChess) : {"k", "q"} \cap dmChess[i].flags # {} }

\* C8: with exactly one square disappeared and exactly one appeared, detectMove
\* returns {from: the disappeared, to: the appeared, confidence: 0.8} if the
\* oracle lists a move with that from and to, and null if it lists none.
C8_NormalMoveIffLegal ==
    (Returned /\ Cardinality(Disappeared) = 1 /\ Cardinality(Appeared) = 1) =>
        \E from \in Disappeared, to \in Appeared :
            IF Lists(dmChess, from, to)
            THEN dmResult[2] = <<[from |-> from, to |-> to, confidence |-> 8]>>
            ELSE dmResult[2] = null

\* C8 witness: a one-square change returned as a move, from an oracle that
\* also lists another move.
C8_Witness ==
    /\ Returned
    /\ Cardinality(Disappeared) = 1
    /\ Cardinality(Appeared) = 1
    /\ Len(dmChess) > 1
    /\ dmResult[2] # null

\* C9: with exactly two squares disappeared and exactly two appeared, detectMove
\* returns the first move of the oracle's list flagged k or q, with that move's
\* from and to and confidence 0.7, and null if the list has no such move.
C9_FirstLegalCastling ==
    (Returned /\ Cardinality(Disappeared) = 2 /\ Cardinality(Appeared) = 2) =>
        IF CastlingAt # {}
        THEN \E i \in CastlingAt :
                /\ \A j \in CastlingAt : i <= j
                /\ dmResult[2] = <<[from |-> dmChess[i].from, to |-> dmChess[i].to,
                                    confidence |-> 7]>>
        ELSE dmResult[2] = null

\* C9 witness: a two-and-two change answered with a castling move that is not
\* the first move of the list and whose squares are not the changed ones.
C9_Witness ==
    /\ Returned
    /\ Cardinality(Disappeared) = 2
    /\ Cardinality(Appeared) = 2
    /\ dmResult[2] # null
    /\ 1 \notin CastlingAt
    /\ dmResult[2][1].from \notin Disappeared
    /\ dmResult[2][1].to \notin Appeared

\* C10: for every other pair of counts of disappeared and appeared squares
\* detectMove returns null.
C10_OtherShapesNoMove ==
    (/\ Returned
     /\ <<Cardinality(Disappeared), Cardinality(Appeared)>> \notin {<<1, 1>>, <<2, 2>>})
        => dmResult[2] = null

\* C10 witness: two squares disappeared and one appeared (the shape of an en
\* passant capture), the oracle listing a castling move, answered with null.
C10_Witness ==
    /\ Returned
    /\ Cardinality(Disappeared) = 2
    /\ Cardinality(Appeared) = 1
    /\ CastlingAt # {}
    /\ dmResult[2] = null

\* C11: every move detectMove returns has a from and a to that one move of the
\* oracle's list has.
C11_ReturnedMoveIsListed ==
    (Returned /\ dmResult[2] # null) =>
        Lists(dmChess, dmResult[2][1].from, dmResult[2][1].to)

\* C11 witness: a one-square change returned as a move although the oracle
\* lists other moves that leave the same square.
C11_Witness ==
    /\ Returned
    /\ dmResult[2] # null
    /\ dmResult[2][1].confidence = 8
    /\ \E i \in 1..Len(dmChess) :
          dmChess[i].from = dmResult[2][1].from /\ dmChess[i].to # dmResult[2][1].to

\* C12: when the oracle returns an empty list, detectMove gives its caller
\* something other than the ordinary "no move" (null).
C12_EmptyOracleSignalled ==
    (Returned /\ dmChess = <<>>) => dmResult[2] # null

-----------------------------------------------------------------------------
(* extractSquares on its own: corners drawn, then the one call *)

CornerCoords == { k * CoordStep : k \in 0..MaxCoord }

Points == [x : CornerCoords, y : CornerCoords]

CornerSets ==
    [topLeft : Points, topRight : Points, bottomLeft : Points, bottomRight : Points]

SquaresInit ==
    /\ esCorners \in CornerSets
    /\ esResult = <<"pending">>

ExtractSquares ==
    /\ esResult = <<"pending">>
    /\ esResult' = <<"returned", extractSquares(esCorners)>>
    /\ UNCHANGED esCorners
    /\ UNCHANGED <<trackerVars, detectVars, occupiedVars, boardVars, shiftVars, cameraVars, dbVars>>

InitSquares == TrackerInit /\ DetectIdle /\ SquaresInit /\ OccupiedIdle /\ BoardIdle /\ ShiftIdle /\ CameraIdle /\ DbIdle

NextSquares == ExtractSquares

SpecSquares == InitSquares /\ [][NextSquares]_vars

SquaresReturned == esResult[1] = "returned"

AllFiles == {"a", "b", "c", "d", "e", "f", "g", "h"}
AllRanks == {"1", "2", "3", "4", "5", "6", "7", "8"}

\* C17: extractSquares returns exactly 64 positions, no two with the same
\* (file, rank), and every pair of a-h and 1-8 is among them.
C17_SixtyFourDistinctSquares ==
    SquaresReturned =>
        LET sq == esResult[2]
        IN  /\ Len(sq) = 64
            /\ \A i, j \in 1..Len(sq) :
                  (sq[i].file = sq[j].file /\ sq[i].rank = sq[j].rank) => i = j
            /\ \A f \in AllFiles : \A r \in AllRanks :
                  \E i \in 1..Len(sq) : sq[i].file = f /\ sq[i].rank = r

\* C17 witness: the call has returned for corners that all coincide, so that
\* all the positions are one pixel.
C17_Witness ==
    /\ SquaresReturned
    /\ esCorners.topLeft = esCorners.bottomRight
    /\ esCorners.topLeft = esCorners.topRight
    /\ esCorners.topLeft = esCorners.bottomLeft
    /\ esCorners.topLeft.x > 0
    /\ \A i \in 1..Len(esResult[2]) : esResult[2][i].x = esResult[2][1].x

\* the letter of a-h at 0-based position k, and the rank 8 - k as a digit
FileLetter(k) == <<"a", "b", "c", "d", "e", "f", "g", "h">>[k + 1]
RankDigit(n) == <<"1", "2", "3", "4", "5", "6", "7", "8">>[n]

\* C18: the element at 0-based index i has file the (i mod 8)-th letter of
\* a-h and rank 8 - floor(i / 8), whatever the corners.
C18_RowMajorFromRank8 ==
    SquaresReturned =>
        \A i \in 0..(Len(esResult[2]) - 1) :
            /\ esResult[2][i + 1].file = FileLetter(i % 8)
            /\ esResult[2][i + 1].rank = RankDigit(8 - (i \div 8))

\* C18 witness: the call has returned for a mirrored board (the top-left
\* corner to the right of the top-right one and below the bottom-left one).
C18_Witness ==
    /\ SquaresReturned
    /\ Len(esResult[2]) = 64
    /\ esCorners.topLeft.x > esCorners.topRight.x
    /\ esCorners.topLeft.y > esCorners.bottomLeft.y
    /\ esResult[2][1].x > esResult[2][8].x

\* 256 times the point of the board at 16ths (a, b) of the way across and
\* down, by bilinear interpolation of one coordinate of the four corners
Bilinear256(tl, tr, bl, br, a, b) ==
    (16 - b) * ((16 - a) * tl + a * tr) + b * ((16 - a) * bl + a * br)

\* C19: each (x, y) is the centre of the square's cell in the 8x8 bilinear
\* subdivision of the corners, rounded to the nearest integer.
C19_SquareAtCellCentre ==
    SquaresReturned =>
        \A i \in 0..(Len(esResult[2]) - 1) :
            LET a == 2 * (i % 8) + 1
                b == 2 * (i \div 8) + 1
                c == esCorners
            IN  /\ esResult[2][i + 1].x =
                      MathRound(Bilinear256(c.topLeft.x, c.topRight.x,
                                            c.bottomLeft.x, c.bottomRight.x, a, b), 256)
                /\ esResult[2][i + 1].y =
                      MathRound(Bilinear256(c.topLeft.y, c.topRight.y,
                                            c.bottomLeft.y, c.bottomRight.y, a, b), 256)

-----------------------------------------------------------------------------
(* detectOccupiedSquares on its own: squares and their region brightness    *)
(* drawn, then the one call                                                  *)

\* region brightnesses a square may have
BrightnessLevels == {100, 101, 147}

OccupiedInit ==
    /\ \E n \in 0..MaxSquares :
          /\ doLabels = SubSeq(squareLabels, 1, n)
          /\ doBrightness \in [1..n -> BrightnessLevels]
    /\ doResult = <<"pending">>

DetectOccupiedSquares ==
    /\ doResult = <<"pending">>
    /\ doResult' = <<"returned", detectOccupiedSquares(doLabels, doBrightness)>>
    /\ UNCHANGED <<doLabels, doBrightness>>
    /\ UNCHANGED <<trackerVars, detectVars, squaresVars, boardVars, shiftVars, cameraVars, dbVars>>

InitOccupied == TrackerInit /\ DetectIdle /\ SquaresIdle /\ OccupiedInit /\ BoardIdle /\ ShiftIdle /\ CameraIdle /\ DbIdle

NextOccupied == DetectOccupiedSquares

SpecOccupied == InitOccupied /\ [][NextOccupied]_vars

OccupiedReturned == doResult[1] = "returned"

\* square i is further than 15 below (Darker) or above (Lighter) the mean of
\* all the squares' brightness, or exactly 15 away from it (OnThreshold);
\* everything is taken times the number of squares
Darker(i) ==
    doBrightness[i] * Len(doBrightness) + 15 * Len(doBrightness) < SumSeq(doBrightness)
Lighter(i) ==
    doBrightness[i] * Len(doBrightness) - 15 * Len(doBrightness) > SumSeq(doBrightness)
OnThreshold(i) ==
    \/ doBrightness[i] * Len(doBrightness) + 15 * Len(doBrightness) = SumSeq(doBrightness)
    \/ doBrightness[i] * Len(doBrightness) - 15 * Len(doBrightness) = SumSeq(doBrightness)

\* C20: detectOccupiedSquares returns exactly the labels of the input squares
\* whose brightness is more than 15 away from the mean of all of them, darker
\* or lighter; a square exactly 15 away is left out, and so is any label that
\* is not an input square's.
C20_OccupiedIffFarFromMean ==
    OccupiedReturned =>
        /\ \A i \in 1..Len(doLabels) :
              doLabels[i] \in doResult[2] <=> (Darker(i) \/ Lighter(i))
        /\ \A i \in 1..Len(doLabels) : OnThreshold(i) => doLabels[i] \notin doResult[2]
        /\ doResult[2] \subseteq { doLabels[i] : i \in 1..Len(doLabels) }
        /\ Cardinality(doResult[2]) <= 64

\* C20 witness: a darker and a lighter square returned and a square exactly
\* 15 from the mean left out, in one call.
C20_Witness ==
    /\ OccupiedReturned
    /\ \E i, j, k \in 1..Len(doLabels) :
          /\ Darker(i) /\ doLabels[i] \in doResult[2]
          /\ Lighter(j) /\ doLabels[j] \in doResult[2]
          /\ OnThreshold(k) /\ doLabels[k] \notin doResult[2]

-----------------------------------------------------------------------------
(* detectChessboard on its own: a frame drawn, then the one call *)

SizeOrder == <<100, 0, 3, 30>>
LitCoords == <<1, 98, 50, 0, 52>>
LitColours == { Colour(60, 60, 60), Colour(255, 255, 255) }

FrameSizes == { SizeOrder[i] : i \in 1..NumSizes }
LitPositions == { <<LitCoords[i], LitCoords[j]>> : i, j \in 1..NumLitCoords }

\* black frames with at most one lit pixel, and one object without data
BoardFrames ==
    { [width |-> w, height |-> h, hasData |-> TRUE, base |-> Black, lit |-> {},
       colour |-> Black] : w, h \in FrameSizes }
    \cup { f \in [width : FrameSizes, height : FrameSizes, hasData : {TRUE},
                   base : {Black}, lit : { {p} : p \in LitPositions },
                   colour : LitColours] :
             \A p \in f.lit : p[1] < f.width /\ p[2] < f.height }
    \cup { [width |-> w, height |-> w, hasData |-> FALSE, base |-> Black, lit |-> {},
            colour |-> Black] : w \in FrameSizes }

BoardInit ==
    /\ dcFrame \in BoardFrames
    /\ dcEdges = <<>>
    /\ dcResult = <<"pending">>

DetectChessboard ==
    /\ dcResult = <<"pending">>
    /\ \E tried \in { tryDetectEdges(dcFrame) } :
          /\ dcEdges' = tried
          /\ dcResult' = <<"returned", detectChessboardAfter(dcFrame, tried)>>
    /\ UNCHANGED dcFrame
    /\ UNCHANGED <<trackerVars, detectVars, squaresVars, occupiedVars, shiftVars, cameraVars, dbVars>>

InitBoard == TrackerInit /\ DetectIdle /\ SquaresIdle /\ OccupiedIdle /\ BoardInit /\ ShiftIdle /\ CameraIdle /\ DbIdle

NextBoard == DetectChessboard

SpecBoard == InitBoard /\ [][NextBoard]_vars

BoardReturned == dcResult[1] = "returned"

\* C13: for a frame whose width or height is zero, detectChessboard signals an
\* invalid frame: what it gives its caller is not a detection result.
C13_ZeroFrameSignalled ==
    (BoardReturned /\ (dcFrame.width = 0 \/ dcFrame.height = 0)) =>
        "detected" \notin DOMAIN dcResult[2]

CornerNames == {"topLeft", "topRight", "bottomLeft", "bottomRight"}

\* C14: detectChessboard returns for every frame (it never raises), with
\* detected false and no corners when confidence < 0.3 and with detected true
\* and all four corners when confidence >= 0.3.
C14_DetectedIffConfident ==
    /\ dcResult[1] \in {"pending", "returned"}
    /\ BoardReturned =>
          LET r == dcResult[2]
          IN  /\ 10 * r.confidence.n < 3 * r.confidence.d =>
                    (~r.detected /\ r.corners = null)
              /\ 10 * r.confidence.n >= 3 * r.confidence.d =>
                    (r.detected /\ r.corners # null /\ DOMAIN r.corners[1] = CornerNames)

\* C14 witness: a frame with some edges, but a confidence below 0.3, reported
\* as not detected.
C14_Witness ==
    /\ BoardReturned
    /\ dcResult[2].confidence.n > 0
    /\ 10 * dcResult[2].confidence.n < 3 * dcResult[2].confidence.d
    /\ ~dcResult[2].detected

\* the densities of the 400 grid cells of the frame, as a set
CellDensities ==
    { cellDensity(dcFrame, dcEdges[1], c[1], c[2]) :
        c \in (0..(gridSize - 1)) \X (0..(gridSize - 1)) }

\* C15: the confidence is min(1, D / 0.15) for D the greatest of the cells'
\* edge densities, and it lies in [0, 1].  (In a frame of width or height 0 no
\* cell has a density; only the range is stated for it.)
C15_ConfidenceFromMaxDensity ==
    BoardReturned =>
        /\ 0 <= dcResult[2].confidence.n
        /\ dcResult[2].confidence.n <= dcResult[2].confidence.d
        /\ (dcEdges # <<>> /\ dcFrame.width > 0 /\ dcFrame.height > 0) =>
              \E ds \in { CellDensities } :
                  \E D \in ds :
                      /\ \A d \in ds : d.n * D.d <= D.n * d.d
                      /\ IF 100 * D.n >= 15 * D.d
                         THEN dcResult[2].confidence.n = dcResult[2].confidence.d
                         ELSE dcResult[2].confidence.n * (15 * D.d) =
                                  (100 * D.n) * dcResult[2].confidence.d

\* C15 witness: cells of three different densities, and a confidence
\* strictly between 0 and 1.
C15_Witness ==
    /\ BoardReturned
    /\ dcEdges # <<>>
    /\ dcResult[2].confidence.n > 0
    /\ dcResult[2].confidence.n < dcResult[2].confidence.d
    /\ Cardinality(CellDensities) >= 3

\* C16: the corners of a detected board in a frame of positive width W and
\* height H are axis-aligned and ordered: equal x on the left and on the right,
\* equal y at the top and at the bottom, 0 <= left < right <= W and
\* 0 <= top < bottom <= H.
C16_CornersOrderedInFrame ==
    (BoardReturned /\ dcResult[2].detected /\ dcFrame.width > 0 /\ dcFrame.height > 0) =>
        LET c == dcResult[2].corners[1]
        IN  /\ RatEqual(c.topLeft.x, c.bottomLeft.x)
            /\ RatEqual(c.topRight.x, c.bottomRight.x)
            /\ RatEqual(c.topLeft.y, c.topRight.y)
            /\ RatEqual(c.bottomLeft.y, c.bottomRight.y)
            /\ ~RatLess(c.topLeft.x, Rat(0, 1))
            /\ RatLess(c.topLeft.x, c.topRight.x)
            /\ ~RatGreater(c.topRight.x, Rat(dcFrame.width, 1))
            /\ ~RatLess(c.topLeft.y, Rat(0, 1))
            /\ RatLess(c.topLeft.y, c.bottomLeft.y)
            /\ ~RatGreater(c.bottomLeft.y, Rat(dcFrame.height, 1))

\* C16 witness: a detected board around a cell at the frame's right and
\* bottom border, its right and bottom sides clipped to the frame.
C16_Witness ==
    /\ BoardReturned
    /\ dcResult[2].detected
    /\ dcFrame.width >= gridSize
    /\ dcFrame.height >= gridSize
    /\ RatEqual(dcResult[2].corners[1].bottomRight.x, Rat(dcFrame.width, 1))
    /\ RatEqual(dcResult[2].corners[1].bottomRight.y, Rat(dcFrame.height, 1))
    /\ RatGreater(dcResult[2].corners[1].topLeft.x, Rat(0, 1))

\* the promotions and the en passant captures of the oracle's list, by position
PromotionAt == { i \in 1..Len(dmChess) : "p" \in dmChess[i].flags }

EnPassantAt == { i \in 1..Len(dmChess) : "e" \in dmChess[i].flags }

\* the transition is the one a listed promotion makes (its from square vacated,
\* its to square newly occupied unless a piece was captured there), or the one
\* a listed en passant capture makes (two squares vacated, its to square
\* newly occupied)
PromotionTransition ==
    \E i \in PromotionAt :
        Disappeared = {dmChess[i].from} /\ Appeared \subseteq {dmChess[i].to}

EnPassantTransition ==
    \E i \in EnPassantAt :
        /\ dmChess[i].from \in Disappeared
        /\ Cardinality(Disappeared) = 2
        /\ Appeared = {dmChess[i].to}

\* C26: for the transition of an en passant capture or of a promotion, the
\* promotion without capture included, detectMove returns no move.
C26_SpecialMovesGiveNoMove ==
    (Returned /\ (PromotionTransition \/ EnPassantTransition)) => dmResult[2] = null

-----------------------------------------------------------------------------
(* detectEdges and detectChessboard on small frames of every size, colour    *)
(* and position of the one pixel that differs                                *)

\* grayscale 0, 50, 29 and 88
EdgeColours == { Black, Colour(50, 50, 50), Colour(0, 0, 255), Colour(200, 30, 90) }

EdgeFrames ==
    { f \in [width : 0..MaxEdgeSize, height : 0..MaxEdgeSize, hasData : {TRUE},
             base : EdgeColours,
             lit : {{}} \cup { {p} : p \in (0..(MaxEdgeSize - 1)) \X (0..(MaxEdgeSize - 1)) },
             colour : EdgeColours] :
        /\ \A p \in f.lit : p[1] < f.width /\ p[2] < f.height
        /\ f.lit = {} => f.colour = f.base }

EdgesInit ==
    /\ dcFrame \in EdgeFrames
    /\ dcEdges = <<>>
    /\ dcResult = <<"pending">>

InitEdges == TrackerInit /\ DetectIdle /\ SquaresIdle /\ OccupiedIdle /\ EdgesInit /\ ShiftIdle /\ CameraIdle /\ DbIdle

NextEdges == DetectChessboard

SpecEdges == InitEdges /\ [][NextEdges]_vars

\* every pixel of the frame has the same colour
UniformFrame == dcFrame.lit = {} \/ dcFrame.colour = dcFrame.base

\* C22: for a frame whose pixels all have one colour, of any width and height,
\* the mask of detectEdges flags no pixel, and detectChessboard reports
\* confidence 0 and detected false.
C22_UniformFrameNoEdges ==
    (BoardReturned /\ dcEdges # <<>> /\ UniformFrame) =>
        /\ dcEdges[1].flagged = {}
        /\ dcResult[2].confidence.n = 0
        /\ ~dcResult[2].detected

\* C22 witness: a frame with interior pixels, all of one colour that is not
\* black, has been through the call.
C22_Witness ==
    /\ BoardReturned
    /\ dcEdges # <<>>
    /\ UniformFrame
    /\ dcFrame.lit # {}
    /\ dcFrame.base # Black
    /\ dcFrame.width >= 3
    /\ dcFrame.height >= 3
    /\ dcEdges[1].flagged = {}

\* the 3x3 Sobel kernels, row by row
KernelX == <<-1, 0, 1, -2, 0, 2, -1, 0, 1>>
KernelY == <<-1, -2, -1, 0, 0, 0, 1, 2, 1>>

\* the gradient of the frame's grayscale at the pixel (x, y) under a kernel
Gradient(kernel, x, y) ==
    SumSeq([k \in 1..9 |->
               kernel[k] * getGray(dcFrame, x + ((k - 1) % 3) - 1, y + ((k - 1) \div 3) - 1)])

\* the squared magnitude of the gradient exceeds, or is, the squared threshold
OverThreshold(x, y) ==
    Gradient(KernelX, x, y) * Gradient(KernelX, x, y)
        + Gradient(KernelY, x, y) * Gradient(KernelY, x, y) > 100 * 100

OnEdgeThreshold(x, y) ==
    Gradient(KernelX, x, y) * Gradient(KernelX, x, y)
        + Gradient(KernelY, x, y) * Gradient(KernelY, x, y) = 100 * 100

InteriorPixel(x, y) ==
    /\ 1 <= x /\ x <= dcFrame.width - 2
    /\ 1 <= y /\ y <= dcFrame.height - 2

\* C23: the mask has width * height entries; a pixel of the outermost ring is
\* not flagged, and an interior pixel is flagged if and only if the squared
\* magnitude of its Sobel gradient over the grayscale exceeds the squared
\* threshold.
C23_EdgeIffGradientOverThreshold ==
    (BoardReturned /\ dcEdges # <<>>) =>
        /\ dcEdges[1].length = dcFrame.width * dcFrame.height
        /\ dcEdges[1].flagged \subseteq
              (0..(dcFrame.width - 1)) \X (0..(dcFrame.height - 1))
        /\ \A x \in 0..(dcFrame.width - 1) : \A y \in 0..(dcFrame.height - 1) :
              <<x, y>> \in dcEdges[1].flagged <=>
                  (InteriorPixel(x, y) /\ OverThreshold(x, y))

\* C23 witness: the pixel that differs lies on the ring; the mask has a
\* flagged interior pixel and an interior pixel whose gradient is not 0 and
\* not over the threshold, and so not flagged.
C23_Witness ==
    /\ BoardReturned
    /\ dcEdges # <<>>
    /\ \E p \in dcEdges[1].flagged : InteriorPixel(p[1], p[2])
    /\ \E x \in 1..(dcFrame.width - 2) : \E y \in 1..(dcFrame.height - 2) :
          /\ <<x, y>> \notin dcEdges[1].flagged
          /\ Gradient(KernelX, x, y) # 0
    /\ \E p \in dcFrame.lit : p[1] = 0

\* the pixels examined for the cell (gx, gy), and the cells that examine the
\* pixel p
Examined(gx, gy) ==
    Cardinality(cellPixels(dcFrame.width, gx)) * Cardinality(cellPixels(dcFrame.height, gy))

CellsExamining(p) ==
    { c \in (0..(gridSize - 1)) \X (0..(gridSize - 1)) :
        p[1] \in cellPixels(dcFrame.width, c[1]) /\ p[2] \in cellPixels(dcFrame.height, c[2]) }

\* C25: for every frame size and every grid cell the density is the number of
\* edge pixels counted in the cell over the number of pixels examined for it,
\* so it is at most 1; and no edge pixel is counted for two cells.
C25_DensityIsShareOfExamined ==
    (BoardReturned /\ dcEdges # <<>> /\ dcFrame.width > 0 /\ dcFrame.height > 0) =>
        /\ \A c \in (0..(gridSize - 1)) \X (0..(gridSize - 1)) :
              \E d \in { cellDensity(dcFrame, dcEdges[1], c[1], c[2]) } :
                  /\ d.n * Examined(c[1], c[2]) =
                        edgeCount(dcFrame, dcEdges[1], c[1], c[2]) * d.d
                  /\ d.n <= d.d
        /\ \A p \in dcEdges[1].flagged : Cardinality(CellsExamining(p)) <= 1

-----------------------------------------------------------------------------
(* The specification of detectOccupiedSquares on pixels: the squares of a    *)
(* board are sampled in a frame and in the frame with every channel of every *)
(* pixel shifted by the same amount.                                         *)

SampledColours == { Colour(10, 10, 10), Colour(40, 100, 70), Colour(120, 120, 120) }

SampledFrames ==
    { f \in [width : 1..MaxSampledSize, height : 1..MaxSampledSize, hasData : {TRUE},
             base : SampledColours, lit : { {}, {<<0, 0>>} }, colour : SampledColours] :
        f.lit = {} => f.colour = f.base }

\* boards with the top-left corner on the frame's first pixel: the small one
\* has every square within REGION_RADIUS of the frame, the large one does not
SampledSides == { 8, 160 }

SampledCorners ==
    { [topLeft |-> [x |-> 0, y |-> 0], topRight |-> [x |-> side, y |-> 0],
       bottomLeft |-> [x |-> 0, y |-> side], bottomRight |-> [x |-> side, y |-> side]] :
      side \in SampledSides }

Shifts == { -10, 10 }

shiftColour(c, by) == Colour(c.r + by, c.g + by, c.b + by)

shiftFrame(frame, by) ==
    [frame EXCEPT !.base = shiftColour(frame.base, by), !.colour = shiftColour(frame.colour, by)]

\* a Uint8ClampedArray holds 0..255 in every channel
ValidColour(c) == \A v \in {c.r, c.g, c.b} : v \in 0..255

ShiftInit ==
    /\ lsFrame \in SampledFrames
    /\ lsCorners \in SampledCorners
    /\ lsShift \in { by \in Shifts : ValidColour(shiftColour(lsFrame.base, by))
                                     /\ ValidColour(shiftColour(lsFrame.colour, by)) }
    /\ lsResult = <<"pending">>

DetectOccupiedOnBoth ==
    /\ lsResult = <<"pending">>
    /\ \E squares \in { extractSquares(lsCorners) } :
           lsResult' = <<"returned", detectOccupiedSquaresIn(lsFrame, squares),
                         detectOccupiedSquaresIn(shiftFrame(lsFrame, lsShift), squares)>>
    /\ UNCHANGED <<lsFrame, lsCorners, lsShift>>
    /\ UNCHANGED <<trackerVars, detectVars, squaresVars, occupiedVars, boardVars, cameraVars, dbVars>>

InitShift == TrackerInit /\ DetectIdle /\ SquaresIdle /\ OccupiedIdle /\ BoardIdle /\ ShiftInit /\ CameraIdle /\ DbIdle

NextShift == DetectOccupiedOnBoth

SpecShift == InitShift /\ [][NextShift]_vars

\* C21: shifting the luminance of every pixel of a frame by the same amount
\* (the result being a valid frame) leaves the set detectOccupiedSquares
\* returns for the same 64 positions unchanged
C21_ShiftKeepsOccupancy ==
    lsResult[1] = "returned" => lsResult[2] = lsResult[3]

-----------------------------------------------------------------------------
(* CameraView (CameraView.tsx): the capture loop of both versions of the     *)
(* component, the one that reschedules processFrame with                     *)
(* requestAnimationFrame and the one that captures in a setInterval          *)
(* callback.  A step is one task of the browser's event loop: a click, a     *)
(* render with new props, the run of the effect that React has deferred      *)
(* after a render, or a timer callback up to its await.  detectChessboard    *)
(* has no await of its own, so what follows await detectChessboard(...) runs *)
(* as a microtask before any other task: no other step is taken while        *)
(* cam.awaiting holds a callback.                                            *)

Versions == { "animationFrame", "interval" }

\* 0 is onFrame undefined
Handlers == 0..NumHandlers

\* the dependency array [isActive, isStarted, onFrame] of the render
depsOf(c) == [isActive |-> c.isActive, isStarted |-> c.isStarted, onFrame |-> c.onFrame]

\* what a callback made in the render closes over
closureOf(c, id) == [id |-> id, isStarted |-> c.isStarted, onFrame |-> c.onFrame]

\* cancelAnimationFrame(id), clearInterval(id)
cancel(timers, id) == { t \in timers : t.id # id }

\* if (ref.current) cancel(ref.current)
cancelRef(c) == IF c.ref # 0 THEN cancel(c.timers, c.ref) ELSE c.timers

CameraInit ==
    /\ cam \in { [NoCamera EXCEPT !.version = v, !.isActive = a, !.onFrame = h] :
                  v \in Versions, a \in BOOLEAN, h \in Handlers }
    /\ camLog = NoStep

\* startCamera, when getUserMedia gave a stream
StartCamera ==
    /\ cam.awaiting = null
    /\ ~cam.isStarted
    /\ cam' = [cam EXCEPT !.stream = TRUE, !.isStarted = TRUE]
    /\ camLog' = [op |-> "startCamera", overlapped |-> FALSE]
    /\ UNCHANGED <<trackerVars, detectVars, squaresVars, occupiedVars, boardVars, shiftVars, dbVars>>

\* stopCamera, from the button shown while isStarted
StopCamera ==
    /\ cam.awaiting = null
    /\ cam.isStarted
    /\ cam' = IF cam.stream
              THEN [cam EXCEPT !.stream = FALSE, !.isStarted = FALSE, !.timers = cancelRef(cam)]
              ELSE cam
    /\ camLog' = [op |-> "stopCamera", overlapped |-> FALSE]
    /\ UNCHANGED <<trackerVars, detectVars, squaresVars, occupiedVars, boardVars, shiftVars, dbVars>>

\* the parent renders the component with other props
Render ==
    /\ cam.awaiting = null
    /\ \E a \in BOOLEAN, h \in Handlers :
           /\ <<a, h>> # <<cam.isActive, cam.onFrame>>
           /\ cam' = [cam EXCEPT !.isActive = a, !.onFrame = h]
    /\ camLog' = [op |-> "render", overlapped |-> FALSE]
    /\ UNCHANGED <<trackerVars, detectVars, squaresVars, occupiedVars, boardVars, shiftVars, dbVars>>

\* the effect of the animation-frame version: the cleanup of its last run,
\* then its body
animationFrameEffect(c) ==
    LET cleaned == IF c.hasCleanup THEN cancelRef(c) ELSE c.timers
    IN  IF c.isActive /\ c.isStarted
        THEN [c EXCEPT !.timers = cleaned \cup {closureOf(c, c.lastTimer + 1)},
                       !.ref = c.lastTimer + 1, !.lastTimer = c.lastTimer + 1,
                       !.hasCleanup = TRUE, !.effectDeps = <<depsOf(c)>>]
        ELSE [c EXCEPT !.timers = cancelRef([c EXCEPT !.timers = cleaned]),
                       !.hasCleanup = TRUE, !.effectDeps = <<depsOf(c)>>]

\* the effect of the interval version: a run that returns early leaves no cleanup
intervalEffect(c) ==
    LET cleaned == IF c.hasCleanup THEN cancelRef(c) ELSE c.timers
    IN  IF ~c.isActive \/ ~c.isStarted \/ c.onFrame = 0
        THEN [c EXCEPT !.timers = cleaned, !.hasCleanup = FALSE, !.effectDeps = <<depsOf(c)>>]
        ELSE [c EXCEPT !.timers = cleaned \cup {closureOf(c, c.lastTimer + 1)},
                       !.ref = c.lastTimer + 1, !.lastTimer = c.lastTimer + 1,
                       !.hasCleanup = TRUE, !.effectDeps = <<depsOf(c)>>]

\* React runs the effect after the render in which a dependency changed (and
\* after the first render)
RunEffect ==
    /\ cam.awaiting = null
    /\ cam.effectDeps # <<depsOf(cam)>>
    /\ cam.lastTimer < MaxTimers
    /\ cam' = IF cam.version = "animationFrame" THEN animationFrameEffect(cam) ELSE intervalEffect(cam)
    /\ camLog' = [op |-> "effect", overlapped |-> FALSE]
    /\ UNCHANGED <<trackerVars, detectVars, squaresVars, occupiedVars, boardVars, shiftVars, dbVars>>

\* a scheduled callback runs up to await detectChessboard(imageData): the
\* animation-frame callback is processFrame and runs once, the interval
\* callback stays scheduled
TimerFires ==
    /\ cam.awaiting = null
    /\ cam.captured < MaxCaptures
    /\ cam.version = "animationFrame" => cam.lastTimer < MaxTimers
    /\ \E t \in cam.timers, playing \in BOOLEAN :
           LET left == IF cam.version = "animationFrame" THEN cam.timers \ {t} ELSE cam.timers
               captures == IF cam.version = "animationFrame"
                           THEN t.isStarted /\ playing
                           ELSE playing
           IN  /\ cam' = IF captures
                         THEN [cam EXCEPT !.timers = left, !.awaiting = <<t>>,
                                          !.captured = cam.captured + 1]
                         ELSE [cam EXCEPT !.timers = left]
               /\ camLog' = [op |-> IF captures THEN "capture" ELSE "skip",
                             overlapped |-> cam.awaiting # null]
    /\ UNCHANGED <<trackerVars, detectVars, squaresVars, occupiedVars, boardVars, shiftVars, dbVars>>

\* after the await: the state setters, onFrame if the callback has one, and in
\* processFrame the next requestAnimationFrame
Resume ==
    /\ cam.awaiting # null
    /\ cam' = IF cam.version = "animationFrame"
              THEN [cam EXCEPT !.awaiting = null,
                               !.timers = cam.timers \cup {[cam.awaiting[1] EXCEPT !.id = cam.lastTimer + 1]},
                               !.ref = cam.lastTimer + 1, !.lastTimer = cam.lastTimer + 1]
              ELSE [cam EXCEPT !.awaiting = null]
    /\ camLog' = [op |-> IF cam.awaiting[1].onFrame # 0 THEN "onFrame" ELSE "resumed",
                  overlapped |-> FALSE]
    /\ UNCHANGED <<trackerVars, detectVars, squaresVars, occupiedVars, boardVars, shiftVars, dbVars>>

InitCamera ==
    TrackerInit /\ DetectIdle /\ SquaresIdle /\ OccupiedIdle /\ BoardIdle /\ ShiftIdle
        /\ CameraInit /\ DbIdle

NextCamera == StartCamera \/ StopCamera \/ Render \/ RunEffect \/ TimerFires \/ Resume

SpecCamera == InitCamera /\ [][NextCamera]_vars

\* at most one frame-processing callback is scheduled
OneCallbackScheduled == Cardinality(cam.timers) <= 1

\* no frame is captured while the one before it is still in flight
NoOverlap == camLog.op = "capture" => ~camLog.overlapped

\* no frame goes to onFrame while the camera is stopped
NoFrameWhenStopped == camLog.op = "onFrame" => cam.isStarted

\* no frame goes to onFrame while isActive is false
NoFrameWhenInactive == camLog.op = "onFrame" => cam.isActive

\* C27: the capture loop handles frames one at a time, has at most one
\* callback scheduled (also after the effect has run again), and gives
\* onFrame no frame after stopCamera or while isActive is false
C27_FramesOneAtATime ==
    OneCallbackScheduled /\ NoOverlap /\ NoFrameWhenStopped /\ NoFrameWhenInactive

-----------------------------------------------------------------------------
(* The games table and the game router (db.ts).  A row is [id, userId,       *)
(* isCompleted]; a step is one statement on the table, so the two statements *)
(* of createGame are two steps and the calls of other callers come between   *)
(* them.                                                                     *)

Users == 1..NumUsers

GameIds == 1..MaxGames

\* db.insert(games).values({userId, ..., isCompleted: 0}): the table gives the id
insertGame(rows, id, userId) == rows \cup {[id |-> id, userId |-> userId, isCompleted |-> 0]}

\* select().from(games).where(eq(games.userId, userId))
gamesOfUser(rows, userId) == { g \in rows : g.userId = userId }

\* select().from(games).where(eq(games.id, gameId))
gamesWithId(rows, gameId) == { g \in rows : g.id = gameId }

\* ...orderBy(desc(games.id)).limit(1), then newGame[0]?.id || 0
latestId(rows) == IF rows = {} THEN 0 ELSE CHOOSE i \in { g.id : g \in rows } : \A g \in rows : g.id <= i

\* db.update(games).set(updateData).where(eq(games.id, gameId))
updateRows(rows, gameId, isCompleted) ==
    { IF g.id = gameId THEN [g EXCEPT !.isCompleted = isCompleted] ELSE g : g \in rows }

\* db.delete(games).where(eq(games.id, gameId))
deleteRows(rows, gameId) == { g \in rows : g.id # gameId }

DbInit ==
    /\ games = {}
    /\ nextId = 1
    /\ calls = [c \in Callers |-> IdleCall]
    /\ rpcLast = NoRpc

\* game.create, first statement of createGame: the insert
CreateInsert ==
    /\ nextId <= MaxGames
    /\ \E c \in Callers, user \in Users :
           /\ calls[c].pc = "idle"
           /\ games' = insertGame(games, nextId, user)
           /\ calls' = [calls EXCEPT ![c] = [pc |-> "inserted", user |-> user, inserted |-> nextId]]
    /\ nextId' = nextId + 1
    /\ UNCHANGED rpcLast
    /\ UNCHANGED <<trackerVars, detectVars, squaresVars, occupiedVars, boardVars, shiftVars, cameraVars>>

\* game.create, second statement of createGame: the select of the user's
\* latest row, whose id the call returns
CreateSelect ==
    /\ \E c \in Callers :
           /\ calls[c].pc = "inserted"
           /\ rpcLast' = [op |-> "create", user |-> calls[c].user,
                          gameId |-> latestId(gamesOfUser(games, calls[c].user)),
                          inserted |-> calls[c].inserted, rows |-> {}]
           /\ calls' = [calls EXCEPT ![c] = IdleCall]
    /\ UNCHANGED <<games, nextId>>
    /\ UNCHANGED <<trackerVars, detectVars, squaresVars, occupiedVars, boardVars, shiftVars, cameraVars>>

\* game.get: getGame(input.gameId)
GetGame ==
    /\ \E user \in Users, gameId \in GameIds :
           rpcLast' = [op |-> "get", user |-> user, gameId |-> gameId, inserted |-> 0,
                       rows |-> gamesWithId(games, gameId)]
    /\ UNCHANGED <<games, nextId, calls>>
    /\ UNCHANGED <<trackerVars, detectVars, squaresVars, occupiedVars, boardVars, shiftVars, cameraVars>>

\* game.list: getUserGames(ctx.user.id)
ListGames ==
    /\ \E user \in Users :
           rpcLast' = [op |-> "list", user |-> user, gameId |-> 0, inserted |-> 0,
                       rows |-> gamesOfUser(games, user)]
    /\ UNCHANGED <<games, nextId, calls>>
    /\ UNCHANGED <<trackerVars, detectVars, squaresVars, occupiedVars, boardVars, shiftVars, cameraVars>>

\* game.update: updateGame(gameId, updates)
UpdateGame ==
    /\ \E user \in Users, gameId \in GameIds, isCompleted \in {0, 1} :
           /\ games' = updateRows(games, gameId, isCompleted)
           /\ rpcLast' = [op |-> "update", user |-> user, gameId |-> gameId, inserted |-> 0,
                          rows |-> gamesWithId(games, gameId)]
    /\ UNCHANGED <<nextId, calls>>
    /\ UNCHANGED <<trackerVars, detectVars, squaresVars, occupiedVars, boardVars, shiftVars, cameraVars>>

\* game.delete: deleteGame(input.gameId)
DeleteGame ==
    /\ \E user \in Users, gameId \in GameIds :
           /\ games' = deleteRows(games, gameId)
           /\ rpcLast' = [op |-> "delete", user |-> user, gameId |-> gameId, inserted |-> 0,
                          rows |-> gamesWithId(games, gameId)]
    /\ UNCHANGED <<nextId, calls>>
    /\ UNCHANGED <<trackerVars, detectVars, squaresVars, occupiedVars, boardVars, shiftVars, cameraVars>>

InitDb ==
    TrackerInit /\ DetectIdle /\ SquaresIdle /\ OccupiedIdle /\ BoardIdle /\ ShiftIdle
        /\ CameraIdle /\ DbInit

NextDb == CreateInsert \/ CreateSelect \/ GetGame \/ ListGames \/ UpdateGame \/ DeleteGame

SpecDb == InitDb /\ [][NextDb]_vars

\* C29: a game.create call returns the id of the row that this call inserted,
\* also when the statements of two calls interleave
C29_CreateReturnsOwnRow ==
    rpcLast.op = "create" => rpcLast.gameId = rpcLast.inserted

\* C30: the rows a game.get, game.list, game.update or game.delete call
\* returns, changes or deletes all belong to the calling user
C30_OnlyOwnGames ==
    rpcLast.op \in {"get", "list", "update", "delete"} =>
        \A g \in rpcLast.rows : g.userId = rpcLast.user

=============================================================================
